---- MODULE Spec2Model ----
(***************************************************************************)
(* A model of the true-ledger-cms core: the in-memory double-entry ledger  *)
(* (core/src/ledger.rs) and the CRDT synchronisation layer                 *)
(* (core/src/sync.rs) with the gossip publish of core/src/lib.rs.          *)
(*                                                                         *)
(* Decimal amounts are integers (all arithmetic in the code is exact).     *)
(* Uuids are short strings. HashMaps are functions whose DOMAIN is the key *)
(* set. The texts the document stores (category names, decimal text,       *)
(* dates, the postings JSON) are written and parsed as the code does.      *)
(***************************************************************************)
EXTENDS Integers, Sequences, FiniteSets, TLC

VARIABLES
    accounts,   \* Ledger.accounts : HashMap<Uuid, Account>
    balances,   \* Ledger.balances : HashMap<Uuid, Decimal>
    posted,     \* history: per account id, the sum of the postings of every accepted transaction
    last,       \* history: the last call on the Ledger, its argument, result and pre-state
    calls,      \* number of calls made on the Ledger so far
    shared,     \* whether the replicas' documents were loaded from one ancestor document
    ledger,     \* per replica: its SyncableLedger
    doc,        \* per replica: its SyncDoc
    published,  \* per replica: the bytes it last published on the topic (NoBytes: none yet)
    recorded,   \* per replica: whether it has recorded its transaction (transaction ids are unique)
    nProj,      \* per replica: number of update_from_ledger calls made on its document
    got,        \* history: per replica, the peers whose current published bytes it has merged
    sl,         \* a SyncableLedger driven through its own API alone
    slLast,     \* history: the last call on sl and the ledger before it
    slLog,      \* history: the transactions passed to sl's record_transaction, in call order
    slCalls,    \* number of calls made on sl
    sdoc,       \* the SyncDoc sl is projected into
    stage,      \* how far sdoc is: "new", "projected", "loaded" (saved and loaded again)
    back        \* the result of to_ledger on sdoc (NotRead: not called yet)

ledgerVars == <<accounts, balances, posted, last, calls>>

syncVars == <<shared, ledger, doc, published, recorded, nProj, got>>

bridgeVars == <<sl, slLast, slLog, slCalls, sdoc, stage, back>>

vars == <<accounts, balances, posted, last, calls,
          shared, ledger, doc, published, recorded, nProj, got,
          sl, slLast, slLog, slCalls, sdoc, stage, back>>

----------------------------------------------------------------------------
(* Bounds of the model *)

\* the longest posting list a transaction is drawn with
MaxPostings == 2
\* the number of add_account / record_transaction calls on one Ledger
MaxCalls == 3
\* the number of local mutations (each with its update_from_ledger) the replicas make in all
MaxProjects == 3
\* the number of add_account / record_transaction calls on the SyncableLedger sl
MaxSlCalls == 3

----------------------------------------------------------------------------
(* Domain model: ledger.rs *)

AccountIds == {"A", "B"}
AccountNames == {"Cash", "Sales"}
\* AccountType, as the position of the variant in the enum
AccountType == [Asset |-> 1, Liability |-> 2, Equity |-> 3, Revenue |-> 4, Expense |-> 5]
AccountTypes == 1..5
\* the categories accounts are drawn with (scenario S1: an Asset and a Revenue account)
InputTypes == {AccountType.Asset, AccountType.Revenue}
\* the amounts postings on each account are drawn with (scenario S1: +100 on A, -99 on B)
AmountsOn == [A |-> {-100, 0, 100}, B |-> {-100, -99, 100}]

Account == [id : AccountIds, name : AccountNames, type : InputTypes]
Posting == UNION {[account_id : {a}, amount : AmountsOn[a]] : a \in AccountIds}

RECURSIVE SeqsUpTo(_, _)
SeqsUpTo(S, n) ==
    IF n = 0 THEN {<<>>}
    ELSE LET shorter == SeqsUpTo(S, n - 1)
         IN  shorter \cup {Append(s, x) : s \in {t \in shorter : Len(t) = n - 1}, x \in S}

\* the transactions the Ledger is called with: only the posting list matters to it
Transaction == [postings : SeqsUpTo(Posting, MaxPostings)]

EmptyMap == [k \in {} |-> 0]
Put(m, k, v) == [x \in (DOMAIN m) \cup {k} |-> IF x = k THEN v ELSE m[x]]

RECURSIVE SumAmounts(_)
SumAmounts(ps) == IF ps = <<>> THEN 0 ELSE Head(ps).amount + SumAmounts(Tail(ps))

\* is_balanced with the comparison slipped from "is zero" to "is not negative"
is_balanced_nonneg(tx) == SumAmounts(tx.postings) >= 0

\* is_balanced with a minimum-two-postings check added
is_balanced_min2(tx) == Len(tx.postings) >= 2 /\ SumAmounts(tx.postings) = 0

\* Transaction::is_balanced
is_balanced(tx) == SumAmounts(tx.postings) = 0

\* the for loop of record_transaction from posting i on: the balances it leaves
\* and the result it returns
RECURSIVE ApplyPostings(_, _, _, _)
ApplyPostings(accts, bal, ps, i) ==
    IF i > Len(ps) THEN [balances |-> bal, res |-> "Ok"]
    ELSE IF ps[i].account_id \notin DOMAIN accts
         THEN [balances |-> bal, res |-> "Account not found"]
         ELSE IF ps[i].account_id \notin DOMAIN bal
              THEN [balances |-> bal, res |-> "panic"]   \* get_mut(..).unwrap() on None
              ELSE ApplyPostings(accts,
                                 [bal EXCEPT ![ps[i].account_id] = @ + ps[i].amount],
                                 ps, i + 1)

\* record_transaction with the two validations in the other order: account
\* existence (and the postings applied so far) before the balance law
RecordResult_exists_first(accts, bal, tx) ==
    LET r == ApplyPostings(accts, bal, tx.postings, 1)
    IN  IF r.res # "Ok" THEN r
        ELSE IF ~is_balanced(tx) THEN [balances |-> bal, res |-> "Unbalanced transaction"]
        ELSE r

\* Ledger::record_transaction as a function of the ledger and the transaction
RecordResult(accts, bal, tx) ==
    IF ~is_balanced(tx)
    THEN [balances |-> bal, res |-> "Unbalanced transaction"]
    ELSE ApplyPostings(accts, bal, tx.postings, 1)

\* Ledger::balance
balance(id) == IF id \in DOMAIN balances THEN balances[id] ELSE 0

\* the sum of the amounts the posting list ps posts to account a
RECURSIVE PostedTo(_, _)
PostedTo(ps, a) ==
    IF ps = <<>> THEN 0
    ELSE (IF Head(ps).account_id = a THEN Head(ps).amount ELSE 0) + PostedTo(Tail(ps), a)

----------------------------------------------------------------------------
(* The in-memory ledger: ledger.rs, impl Ledger *)

\* Ledger::new
LedgerInit ==
    /\ accounts = EmptyMap
    /\ balances = EmptyMap
    /\ posted = [a \in AccountIds |-> 0]
    /\ last = [op |-> "new", res |-> "Ok", tx |-> [postings |-> <<>>],
               accounts |-> EmptyMap, balances |-> EmptyMap]
    /\ calls = 0

\* add_account without the insert into balances
add_account_no_balance(account) ==
    /\ calls < MaxCalls
    /\ accounts' = Put(accounts, account.id, account)
    /\ last' = [op |-> "add_account", res |-> "Ok", tx |-> [postings |-> <<>>],
                accounts |-> accounts, balances |-> balances]
    /\ calls' = calls + 1
    /\ UNCHANGED <<posted, balances>>

\* Ledger::add_account
add_account(account) ==
    /\ calls < MaxCalls
    /\ accounts' = Put(accounts, account.id, account)
    /\ balances' = Put(balances, account.id, 0)
    /\ last' = [op |-> "add_account", res |-> "Ok", tx |-> [postings |-> <<>>],
                accounts |-> accounts, balances |-> balances]
    /\ calls' = calls + 1
    /\ UNCHANGED posted

\* Ledger::record_transaction
record_transaction(tx) ==
    /\ calls < MaxCalls
    /\ LET r == RecordResult(accounts, balances, tx)
       IN  /\ balances' = r.balances
           /\ last' = [op |-> "record_transaction", res |-> r.res, tx |-> tx,
                       accounts |-> accounts, balances |-> balances]
           /\ posted' = IF r.res = "Ok"
                        THEN [a \in AccountIds |-> posted[a] + PostedTo(tx.postings, a)]
                        ELSE posted
    /\ calls' = calls + 1
    /\ UNCHANGED accounts

----------------------------------------------------------------------------
(* The syncable ledger: sync.rs, impl SyncableLedger *)

\* a replica's number is also the actor id of its document: automerge draws
\* actor ids at random, and their order only decides which of two concurrent
\* operations wins
Replicas == {1, 2, 3}
\* the actor id of the document every replica loads when they share an ancestor
Genesis == 0

SyncAccountIds == {"A", "B", "C"}
\* HashMap iteration is modelled in id order (spec 4.2: "sorted by account id")
AccountOrder == <<"A", "B", "C">>
\* the account a replica adds: replicas 1 and 2 add the same id under different names
SyncAccountOf ==
    (1 :> [id |-> "A", name |-> "Cash", type |-> AccountType.Asset]) @@
    (2 :> [id |-> "A", name |-> "Sales", type |-> AccountType.Asset])

\* the transaction replica r records (scenario S4: T1 and T2); ids are unique per origin
TxOf(r) ==
    CASE r = 1 -> [id |-> "T1", date |-> [year |-> 2024, month |-> 1, day |-> 31],
                   description |-> "sale",
                   postings |-> <<[account_id |-> "A", amount |-> 50],
                                  [account_id |-> "B", amount |-> -50]>>]
      [] r = 2 -> [id |-> "T2", date |-> [year |-> 2024, month |-> 2, day |-> 1],
                   description |-> "fee",
                   postings |-> <<[account_id |-> "A", amount |-> 30],
                                  [account_id |-> "C", amount |-> -30]>>]
      [] OTHER -> [id |-> "T3", date |-> [year |-> 2024, month |-> 12, day |-> 5],
                   description |-> "sale",
                   postings |-> <<[account_id |-> "B", amount |-> 20],
                                  [account_id |-> "C", amount |-> -20]>>]

\* SyncableLedger::new
NewSyncableLedger == [accounts |-> EmptyMap, transactions |-> <<>>, balances |-> EmptyMap]

\* add_account with the balance inserted as Ledger::add_account does: always
SyncAddAccount_reset(l, account) ==
    [l EXCEPT !.accounts = Put(l.accounts, account.id, account),
              !.balances = Put(l.balances, account.id, 0)]

\* SyncableLedger::add_account
SyncAddAccount(l, account) ==
    [l EXCEPT !.accounts = Put(l.accounts, account.id, account),
              !.balances = IF account.id \in DOMAIN l.balances
                           THEN l.balances
                           ELSE Put(l.balances, account.id, 0)]

\* the for loop of SyncableLedger::record_transaction
RECURSIVE SyncApplyPostings(_, _)
SyncApplyPostings(bal, ps) ==
    IF ps = <<>> THEN bal
    ELSE LET p == Head(ps)
             old == IF p.account_id \in DOMAIN bal THEN bal[p.account_id] ELSE 0
         IN  SyncApplyPostings(Put(bal, p.account_id, old + p.amount), Tail(ps))

\* SyncableLedger::record_transaction
SyncRecordTransaction(l, tx) ==
    [l EXCEPT !.balances = SyncApplyPostings(l.balances, tx.postings),
              !.transactions = Append(l.transactions, tx)]

----------------------------------------------------------------------------
(* The CRDT document (automerge AutoCommit) as sync.rs uses it.              *)
(* An operation id is <<counter, actor>>; a document's next operation takes  *)
(* counter maxOp + 1. A list is the batches inserted into it (each           *)
(* update_* call inserts its elements as one chain after the list head) and  *)
(* the ids of the batches a clear_list has deleted; a map is the put         *)
(* operations made on it and the ids of the puts a delete has removed.       *)

OpLess(a, b) == a[1] < b[1] \/ (a[1] = b[1] /\ a[2] < b[2])

Max(a, b) == IF a >= b THEN a ELSE b

EmptyList == [elems |-> {}, dead |-> {}]
EmptyDocMap == [puts |-> {}, dead |-> {}]

VisibleBatches(list) == {e \in list.elems : e.id \notin list.dead}

\* the batches of S laid out in list order: concurrent inserts at the head of
\* a list are ordered by descending operation id
RECURSIVE Flatten(_)
Flatten(S) ==
    IF S = {} THEN <<>>
    ELSE LET m == CHOOSE e \in S : \A f \in S : f.id = e.id \/ OpLess(f.id, e.id)
         IN  m.items \o Flatten(S \ {m})

\* doc.length(list) and doc.get(list, i): the visible elements in order
ListItems(list) == Flatten(VisibleBatches(list))

\* the rebuild without the clear_list: the items are inserted after the ones
\* the list already shows
Rebuild_accumulate(list, items, maxOp, actor, opsPerItem) ==
    LET batch == IF items = <<>> THEN {}
                 ELSE {[id |-> <<maxOp + 1, actor>>, items |-> items]}
    IN  [list |-> [elems |-> list.elems \cup batch, dead |-> list.dead],
         ops |-> opsPerItem * Len(items)]

\* doc.clear_list(list) followed by one insert_object and its puts per item
\* of items; opsPerItem is 1 + the number of fields put on each element.
\* Returns the list and the number of operations made.
Rebuild(list, items, maxOp, actor, opsPerItem) ==
    LET n == Len(ListItems(list))
        cleared == list.dead \cup {e.id : e \in VisibleBatches(list)}
        batch == IF items = <<>> THEN {}
                 ELSE {[id |-> <<maxOp + n + 1, actor>>, items |-> items]}
    IN  [list |-> [elems |-> list.elems \cup batch, dead |-> cleared],
         ops |-> n + opsPerItem * Len(items)]

LivePuts(map) == {p \in map.puts : p.id \notin map.dead}

\* doc.keys(map)
MapKeys(map) == {p.key : p \in LivePuts(map)}

\* doc.get(map, key): of concurrent puts the one with the greatest operation id wins
MapGet(map, key) ==
    LET c == {p \in LivePuts(map) : p.key = key}
    IN  (CHOOSE p \in c : \A q \in c : q.id = p.id \/ OpLess(q.id, p.id)).val

\* SyncDoc::new by the given actor: operations 1..4 create ROOT.ledger and
\* its three children; the ledger object is named by the actor that made it
NewDoc(actor) ==
    [maxOp |-> 4,
     objs |-> (actor :> [accounts |-> EmptyList, transactions |-> EmptyList,
                         balances |-> EmptyDocMap])]

\* SyncDoc::to_bytes and SyncDoc::from_bytes: save and load keep every operation
to_bytes(d) == <<d>>
from_bytes(b) == b[1]
NoBytes == <<>>

\* SyncDoc::get_ledger_obj: doc.get(ROOT, "ledger"). Every SyncDoc::new puts
\* its own object at ROOT.ledger with operation id <<1, actor>>; of these
\* concurrent puts the greatest operation id wins
get_ledger_obj(d) == CHOOSE L \in DOMAIN d.objs : \A M \in DOMAIN d.objs : M <= L

\* format!("{:?}", account_type)
TypeNames == <<"Asset", "Liability", "Equity", "Revenue", "Expense">>
\* the category written in lower case
TypeDebug_lower(t) == <<"asset", "liability", "equity", "revenue", "expense">>[t]
TypeDebug(t) == TypeNames[t]
\* the match of read_accounts with a default arm: an unknown name reads as Asset
ParseType_default_asset(str) ==
    IF \E t \in AccountTypes : TypeNames[t] = str
    THEN CHOOSE t \in AccountTypes : TypeNames[t] = str
    ELSE AccountType.Asset

\* the match of read_accounts: 0 stands for the "unknown account type" error
ParseType(str) ==
    IF \E t \in AccountTypes : TypeNames[t] = str
    THEN CHOOSE t \in AccountTypes : TypeNames[t] = str
    ELSE 0

\* Decimal::to_string: a "-" for a negative amount, then the digits of its
\* magnitude (amounts are whole numbers of the smallest unit)
DecimalText(n) == [neg |-> n < 0, digits |-> IF n < 0 THEN -n ELSE n]

\* the parse of a decimal text
ParseDecimal(t) == IF t.neg THEN -t.digits ELSE t.digits

\* NaiveDate::to_string: the digits of "YYYY-MM-DD"
DateText(d) == d.year * 10000 + d.month * 100 + d.day

\* NaiveDate::parse_from_str(.., "%Y-%m-%d")
ParseDate(t) == [year |-> t \div 10000, month |-> (t \div 100) % 100, day |-> t % 100]

\* serde_json::to_string(&tx.postings): the array of {account_id, amount},
\* amount as decimal text
PostingsJson(ps) ==
    [i \in 1..Len(ps) |->
        [account_id |-> ps[i].account_id, amount |-> DecimalText(ps[i].amount)]]

\* serde_json::from_str::<Vec<Posting>>
ParsePostings(js) ==
    [i \in 1..Len(js) |->
        [account_id |-> js[i].account_id, amount |-> ParseDecimal(js[i].amount)]]

\* the account ids of a HashMap in iteration order
KeySeq(m) == SelectSeq(AccountOrder, LAMBDA a : a \in DOMAIN m)

\* SyncDoc::update_accounts
update_accounts(d, actor, accts) ==
    LET L == get_ledger_obj(d)
        keys == KeySeq(accts)
        items == [i \in 1..Len(keys) |->
                     [id |-> accts[keys[i]].id, name |-> accts[keys[i]].name,
                      type |-> TypeDebug(accts[keys[i]].type)]]
        r == Rebuild(d.objs[L].accounts, items, d.maxOp, actor, 4)
    IN  [d EXCEPT !.maxOp = @ + r.ops, !.objs[L].accounts = r.list]

\* SyncDoc::update_transactions
update_transactions(d, actor, txs) ==
    LET L == get_ledger_obj(d)
        items == [i \in 1..Len(txs) |->
                     [id |-> txs[i].id, date |-> DateText(txs[i].date),
                      description |-> txs[i].description,
                      postings |-> PostingsJson(txs[i].postings)]]
        r == Rebuild(d.objs[L].transactions, items, d.maxOp, actor, 5)
    IN  [d EXCEPT !.maxOp = @ + r.ops, !.objs[L].transactions = r.list]

\* SyncDoc::update_balances: delete every key, then put every balance
update_balances(d, actor, bal) ==
    LET L == get_ledger_obj(d)
        map == d.objs[L].balances
        m == Cardinality(MapKeys(map))
        keys == KeySeq(bal)
        new == {[key |-> keys[i], id |-> <<d.maxOp + m + i, actor>>,
                 val |-> DecimalText(bal[keys[i]])] : i \in 1..Len(keys)}
    IN  [d EXCEPT !.maxOp = @ + m + Len(keys),
                  !.objs[L].balances =
                      [puts |-> map.puts \cup new,
                       dead |-> map.dead \cup {p.id : p \in LivePuts(map)}]]

\* SyncDoc::update_from_ledger
update_from_ledger(d, actor, l) ==
    update_balances(
        update_transactions(update_accounts(d, actor, l.accounts), actor, l.transactions),
        actor, l.balances)

\* the for loop of read_accounts: insert each element into the HashMap
RECURSIVE ReadAccountItems(_, _)
ReadAccountItems(items, acc) ==
    IF items = <<>> THEN acc
    ELSE LET a == Head(items)
         IN  ReadAccountItems(Tail(items),
                 Put(acc, a.id, [id |-> a.id, name |-> a.name, type |-> ParseType(a.type)]))

\* SyncDoc::read_accounts; ok is FALSE for MissingField("unknown account type")
read_accounts(obj) ==
    LET items == ListItems(obj.accounts)
    IN  [ok |-> \A i \in 1..Len(items) : ParseType(items[i].type) # 0,
         accounts |-> ReadAccountItems(items, EmptyMap)]

\* SyncDoc::read_transactions: every visible element of the list, in order
read_transactions(obj) ==
    LET items == ListItems(obj.transactions)
    IN  [i \in 1..Len(items) |->
            [id |-> items[i].id, date |-> ParseDate(items[i].date),
             description |-> items[i].description,
             postings |-> ParsePostings(items[i].postings)]]

\* SyncDoc::read_balances: the balances map of the document, key by key
read_balances(obj) ==
    [k \in MapKeys(obj.balances) |-> ParseDecimal(MapGet(obj.balances, k))]

\* SyncDoc::to_ledger
to_ledger(d) ==
    LET obj == d.objs[get_ledger_obj(d)]
        ra == read_accounts(obj)
    IN  [ok |-> ra.ok,
         ledger |-> [accounts |-> ra.accounts,
                     transactions |-> read_transactions(obj),
                     balances |-> read_balances(obj)]]

MergeList(a, b) == [elems |-> a.elems \cup b.elems, dead |-> a.dead \cup b.dead]
MergeMap(a, b) == [puts |-> a.puts \cup b.puts, dead |-> a.dead \cup b.dead]
MergeObj(a, b) ==
    [accounts |-> MergeList(a.accounts, b.accounts),
     transactions |-> MergeList(a.transactions, b.transactions),
     balances |-> MergeMap(a.balances, b.balances)]

\* merge as a re-insertion: the peer's visible transactions are inserted into
\* the local list as new elements
merge_reinsert(d, o) ==
    LET L == get_ledger_obj(d)
        theirs == ListItems(o.objs[get_ledger_obj(o)].transactions)
        list == d.objs[L].transactions
        batch == IF theirs = <<>> THEN {}
                 ELSE {[id |-> <<d.maxOp + 1, Genesis>>, items |-> theirs]}
    IN  [d EXCEPT !.maxOp = @ + 5 * Len(theirs),
                  !.objs[L].transactions = [list EXCEPT !.elems = @ \cup batch]]

\* merge as "the local document wins": an object both documents hold keeps the
\* local operations only
merge_local_first(d, o) ==
    [maxOp |-> Max(d.maxOp, o.maxOp),
     objs |-> [L \in DOMAIN d.objs \cup DOMAIN o.objs |->
                  IF L \in DOMAIN d.objs THEN d.objs[L] ELSE o.objs[L]]]

\* SyncDoc::merge: doc.merge(other) applies every operation of other that doc lacks
merge(d, o) ==
    [maxOp |-> Max(d.maxOp, o.maxOp),
     objs |-> [L \in DOMAIN d.objs \cup DOMAIN o.objs |->
                  IF L \in DOMAIN d.objs /\ L \in DOMAIN o.objs
                  THEN MergeObj(d.objs[L], o.objs[L])
                  ELSE IF L \in DOMAIN d.objs THEN d.objs[L] ELSE o.objs[L]]]

----------------------------------------------------------------------------
(* One SyncableLedger driven through add_account and record_transaction, *)
(* then the projection bridge: update_from_ledger into a new SyncDoc,    *)
(* to_bytes / from_bytes, to_ledger (scenario S3)                        *)

\* the accounts sl is called with: every category, and id A under two names
SlAccounts ==
    {[id |-> "A", name |-> "Cash", type |-> AccountType.Asset],
     [id |-> "A", name |-> "Sales", type |-> AccountType.Revenue],
     [id |-> "B", name |-> "Loan", type |-> AccountType.Liability],
     [id |-> "B", name |-> "Capital", type |-> AccountType.Equity],
     [id |-> "B", name |-> "Rent", type |-> AccountType.Expense]}

\* the transactions sl is called with
SlTransactions == {TxOf(r) : r \in Replicas}

NotRead == [ok |-> FALSE, ledger |-> NewSyncableLedger, read |-> FALSE]

BridgeInit ==
    /\ sl = NewSyncableLedger
    /\ slLast = [op |-> "new", id |-> "", pre |-> NewSyncableLedger]
    /\ slLog = <<>>
    /\ slCalls = 0
    /\ sdoc = NewDoc(1)
    /\ stage = "new"
    /\ back = NotRead

\* SyncableLedger::add_account on sl
SlAddAccount(account) ==
    /\ stage = "new"
    /\ slCalls < MaxSlCalls
    /\ sl' = SyncAddAccount(sl, account)
    /\ slLast' = [op |-> "add_account", id |-> account.id, pre |-> sl]
    /\ slCalls' = slCalls + 1
    /\ UNCHANGED <<slLog, sdoc, stage, back>>

\* SyncableLedger::record_transaction on sl
SlRecord(tx) ==
    /\ stage = "new"
    /\ slCalls < MaxSlCalls
    /\ sl' = SyncRecordTransaction(sl, tx)
    /\ slLast' = [op |-> "record_transaction", id |-> tx.id, pre |-> sl]
    /\ slLog' = Append(slLog, tx)
    /\ slCalls' = slCalls + 1
    /\ UNCHANGED <<sdoc, stage, back>>

\* SyncDoc::new().update_from_ledger(&sl)
SlProject ==
    /\ stage = "new"
    /\ sdoc' = update_from_ledger(sdoc, 1, sl)
    /\ stage' = "projected"
    /\ UNCHANGED <<sl, slLast, slLog, slCalls, back>>

\* SyncDoc::from_bytes(&sdoc.to_bytes())
SlSaveLoad ==
    /\ stage = "projected"
    /\ back = NotRead
    /\ sdoc' = from_bytes(to_bytes(sdoc))
    /\ stage' = "loaded"
    /\ UNCHANGED <<sl, slLast, slLog, slCalls, back>>

\* sdoc.to_ledger()
SlRead ==
    /\ stage \in {"projected", "loaded"}
    /\ back = NotRead
    /\ LET res == to_ledger(sdoc)
       IN  back' = [ok |-> res.ok, ledger |-> res.ledger, read |-> TRUE]
    /\ UNCHANGED <<sl, slLast, slLog, slCalls, sdoc, stage>>

BridgeNext ==
    \/ \E account \in SlAccounts : SlAddAccount(account) /\ UNCHANGED <<ledgerVars, syncVars>>
    \/ \E tx \in SlTransactions : SlRecord(tx) /\ UNCHANGED <<ledgerVars, syncVars>>
    \/ SlProject /\ UNCHANGED <<ledgerVars, syncVars>>
    \/ SlSaveLoad /\ UNCHANGED <<ledgerVars, syncVars>>
    \/ SlRead /\ UNCHANGED <<ledgerVars, syncVars>>

----------------------------------------------------------------------------
(* Replicas: a SyncableLedger and a SyncDoc each, exchanging published bytes *)

\* each replica starts from its own SyncDoc::new(), or all of them load the
\* bytes of one ancestor document
SyncInit ==
    /\ shared \in BOOLEAN
    /\ ledger = [r \in Replicas |-> NewSyncableLedger]
    /\ doc = [r \in Replicas |->
                 IF shared THEN from_bytes(to_bytes(NewDoc(Genesis))) ELSE NewDoc(r)]
    /\ published = [r \in Replicas |-> NoBytes]
    /\ recorded = [r \in Replicas |-> FALSE]
    /\ nProj = [r \in Replicas |-> 0]
    /\ got = [r \in Replicas |-> {}]

\* the update_from_ledger calls made so far, over all replicas
TotalProjects == nProj[1] + nProj[2] + nProj[3]

\* the tail of a local mutation (spec 4.4): SyncDoc::update_from_ledger on the
\* replica's document, then SyncClient::sync_with_peer(doc.to_bytes())
ProjectAndPublish(r, l) ==
    LET d == update_from_ledger(doc[r], r, l)
    IN  /\ ledger' = [ledger EXCEPT ![r] = l]
        /\ doc' = [doc EXCEPT ![r] = d]
        /\ published' = [published EXCEPT ![r] = to_bytes(d)]
        /\ nProj' = [nProj EXCEPT ![r] = @ + 1]
        /\ got' = [x \in Replicas |-> got[x] \ {r}]

\* local mutation: SyncableLedger::add_account, projected and published
LocalAddAccount(r) ==
    /\ r \in DOMAIN SyncAccountOf
    /\ TotalProjects < MaxProjects
    /\ ProjectAndPublish(r, SyncAddAccount(ledger[r], SyncAccountOf[r]))
    /\ UNCHANGED <<shared, recorded>>

\* local mutation: SyncableLedger::record_transaction, projected and published
LocalRecord(r) ==
    /\ ~recorded[r]
    /\ TotalProjects < MaxProjects
    /\ ProjectAndPublish(r, SyncRecordTransaction(ledger[r], TxOf(r)))
    /\ recorded' = [recorded EXCEPT ![r] = TRUE]
    /\ UNCHANGED shared

\* inbound bytes of peer s at replica r: from_bytes, merge, to_ledger, and the
\* projection replaces the local ledger
Receive(r, s) ==
    /\ r # s
    /\ published[s] # NoBytes
    /\ LET merged == merge(doc[r], from_bytes(published[s]))
           res == to_ledger(merged)
       IN  /\ doc' = [doc EXCEPT ![r] = merged]
           /\ ledger' = [ledger EXCEPT ![r] = IF res.ok THEN res.ledger ELSE @]
    /\ got' = [got EXCEPT ![r] = @ \cup {s}]
    /\ UNCHANGED <<shared, published, recorded, nProj>>

SyncNext ==
    \/ \E r \in Replicas : LocalAddAccount(r) /\ UNCHANGED <<ledgerVars, bridgeVars>>
    \/ \E r \in Replicas : LocalRecord(r) /\ UNCHANGED <<ledgerVars, bridgeVars>>
    \/ \E r, s \in Replicas : Receive(r, s) /\ UNCHANGED <<ledgerVars, bridgeVars>>

\* the replicas, with the in-memory Ledger of ledger.rs left as constructed
ReplicasInit == LedgerInit /\ SyncInit /\ BridgeInit

SyncSpec == ReplicasInit /\ [][SyncNext]_vars
----------------------------------------------------------------------------
(* Two replicas and a peer that runs another version: its documents carry an *)
(* account whose category the match of read_accounts does not know           *)

Pair == {1, 2}
\* the actor id of the foreign peer's operations
ForeignActor == 4
\* the replica the foreign peer's messages reach
ForeignLink == 2

\* base with one account of category "Overdraft" written into its accounts list
WithOverdraft(base) ==
    LET L == get_ledger_obj(base)
        r == Rebuild(base.objs[L].accounts,
                     <<[id |-> "B", name |-> "Loan", type |-> "Overdraft"]>>,
                     base.maxOp, ForeignActor, 4)
    IN  [base EXCEPT !.maxOp = @ + r.ops, !.objs[L].accounts = r.list]

\* the foreign peer's documents (scenario S6): one grown from the ancestor
\* document and one from the peer's own SyncDoc::new()
ForeignDocs == {WithOverdraft(NewDoc(Genesis)), WithOverdraft(NewDoc(ForeignActor))}

\* inbound bytes of the foreign peer at replica r: from_bytes, merge,
\* to_ledger; on an error of to_ledger the message is dropped
ReceiveForeign(r, F) ==
    /\ LET merged == merge(doc[r], from_bytes(to_bytes(F)))
           res == to_ledger(merged)
       IN  /\ doc' = [doc EXCEPT ![r] = merged]
           /\ ledger' = [ledger EXCEPT ![r] = IF res.ok THEN res.ledger ELSE @]
    /\ UNCHANGED <<shared, published, recorded, nProj, got>>

InboundNext ==
    \/ \E r \in Pair : LocalAddAccount(r) /\ UNCHANGED <<ledgerVars, bridgeVars>>
    \/ \E r \in Pair : LocalRecord(r) /\ UNCHANGED <<ledgerVars, bridgeVars>>
    \/ \E r, s \in Pair : Receive(r, s) /\ UNCHANGED <<ledgerVars, bridgeVars>>
    \/ \E F \in ForeignDocs :
           ReceiveForeign(ForeignLink, F) /\ UNCHANGED <<ledgerVars, bridgeVars>>

InboundSpec == ReplicasInit /\ [][InboundNext]_vars

----------------------------------------------------------------------------
(* Specifications *)

\* the in-memory Ledger alone
Init == LedgerInit /\ SyncInit /\ shared = FALSE /\ BridgeInit

Next ==
    \/ \E account \in Account : add_account(account) /\ UNCHANGED <<syncVars, bridgeVars>>
    \/ \E tx \in Transaction : record_transaction(tx) /\ UNCHANGED <<syncVars, bridgeVars>>

Spec == Init /\ [][Next]_vars

\* the SyncableLedger and its projection alone
ProjectionSpec == Init /\ [][BridgeNext]_vars

----------------------------------------------------------------------------
(* Claims about the in-memory ledger *)

\* the sum of balance(a) over the ids of S
RECURSIVE SumBalances(_)
SumBalances(S) ==
    IF S = {} THEN 0
    ELSE LET a == CHOOSE x \in S : TRUE IN balance(a) + SumBalances(S \ {a})

RecordFailed == last.op = "record_transaction" /\ last.res # "Ok"

\* C1: record_transaction is all-or-nothing: when it returns an error, the
\* accounts and every balance are what they were before the call.
C1_RecordAllOrNothing ==
    RecordFailed => (accounts = last.accounts /\ balances = last.balances)

\* C2: conservation: in every reachable state the balances of all accounts sum to zero.
C2_Conservation == SumBalances(AccountIds) = 0

\* C3: balance cache: for every account, balance(A) is the sum of the posting
\* amounts for A over all transactions record_transaction accepted.
C3_BalanceCache == \A a \in AccountIds : balance(a) = posted[a]

\* C4: balance law: a transaction record_transaction accepts has posting
\* amounts summing to zero; a transaction whose sum is not zero is rejected as
\* unbalanced and every balance keeps its value.
C4_BalanceLaw ==
    last.op = "record_transaction" =>
        /\ last.res = "Ok" => SumAmounts(last.tx.postings) = 0
        /\ SumAmounts(last.tx.postings) # 0 =>
               /\ last.res = "Unbalanced transaction"
               /\ balances = last.balances
               /\ accounts = last.accounts

\* scenario S1: accounts A (Asset) and B (Revenue), postings [(A,+100),(B,-99)]
\* rejected as unbalanced, balances still 0
C4_Witness ==
    /\ last.op = "record_transaction"
    /\ last.tx.postings = <<[account_id |-> "A", amount |-> 100],
                            [account_id |-> "B", amount |-> -99]>>
    /\ DOMAIN accounts = {"A", "B"}
    /\ accounts["A"].type = AccountType.Asset
    /\ accounts["B"].type = AccountType.Revenue
    /\ last.res = "Unbalanced transaction"
    /\ balance("A") = 0 /\ balance("B") = 0

ShortTx == last.op = "record_transaction" /\ Len(last.tx.postings) < 2

----------------------------------------------------------------------------
(* Further claims about the in-memory ledger *)

\* the last call was a record_transaction of a transaction that is both
\* unbalanced and posts to an account the ledger does not have
UnbalancedAndUnknown ==
    /\ last.op = "record_transaction"
    /\ SumAmounts(last.tx.postings) # 0
    /\ \E i \in 1..Len(last.tx.postings) :
           last.tx.postings[i].account_id \notin DOMAIN last.accounts

\* C16: validation order of Ledger.record_transaction: a transaction that is
\* both unbalanced and references an unknown account is rejected with the
\* unbalanced error, never the unknown-account error, and no balance has
\* been touched.
C16_ValidationOrder ==
    UnbalancedAndUnknown =>
        /\ last.res = "Unbalanced transaction"
        /\ balances = last.balances

\* [(A,+100),(B,-99)] has been recorded on a ledger that has A but not B
C16_Witness ==
    /\ UnbalancedAndUnknown
    /\ DOMAIN last.accounts = {"A"}
    /\ last.tx.postings = <<[account_id |-> "A", amount |-> 100],
                            [account_id |-> "B", amount |-> -99]>>
    /\ last.res = "Unbalanced transaction"

\* C17: accounts are immutable once added: add_account with an id that is
\* already present leaves the stored account's name and category unchanged.
C17_AccountsImmutable ==
    last.op = "add_account" =>
        \A id \in DOMAIN last.accounts : accounts[id] = last.accounts[id]

\* C19: in every reachable state of the Ledger the ids with a balance entry
\* are the account ids, and the balance lookup of record_transaction
\* (get_mut(..).unwrap()) has never failed.
C19_BalanceEntries ==
    /\ DOMAIN balances = DOMAIN accounts
    /\ last.res # "panic"

\* a transaction posting to both accounts has passed the existence check and
\* the balance lookup, and moved the balances
C19_Witness ==
    /\ last.op = "record_transaction"
    /\ last.res = "Ok"
    /\ DOMAIN accounts = {"A", "B"}
    /\ balances["A"] = 100
    /\ balances["B"] = -100

----------------------------------------------------------------------------
(* Claims about the synchronisation layer *)

TxIds(txs) == {txs[i].id : i \in 1..Len(txs)}

\* no transaction id occurs twice in the list
NoDuplicateIds(txs) == \A i, j \in 1..Len(txs) : txs[i].id = txs[j].id => i = j

\* the sum of the amounts the transactions of the list post to account a
RECURSIVE PostedIn(_, _)
PostedIn(txs, a) ==
    IF txs = <<>> THEN 0 ELSE PostedTo(Head(txs).postings, a) + PostedIn(Tail(txs), a)

\* balances[a], 0 when absent
BalanceOf(l, a) == IF a \in DOMAIN l.balances THEN l.balances[a] ELSE 0

\* scenario S4 has run: replicas 1 and 2 each started from their own
\* SyncDoc::new(), recorded T1 and T2, projected and published before merging
\* anything, and each has merged the other's bytes and reprojected
S4Done ==
    /\ ~shared
    /\ recorded = <<TRUE, TRUE, FALSE>>
    /\ nProj = <<1, 1, 0>>
    /\ DOMAIN from_bytes(published[1]).objs = {1}
    /\ DOMAIN from_bytes(published[2]).objs = {2}
    /\ got[1] = {2} /\ got[2] = {1}

\* C6: two-replica convergence (S4): after the exchange both replicas hold
\* the transaction multiset {T1, T2} and the balances A=80, B=-50, C=-30.
C6_TwoReplicaConvergence ==
    S4Done =>
        \A r \in {1, 2} :
            /\ TxIds(ledger[r].transactions) = {"T1", "T2"}
            /\ Len(ledger[r].transactions) = 2
            /\ BalanceOf(ledger[r], "A") = 80
            /\ BalanceOf(ledger[r], "B") = -50
            /\ BalanceOf(ledger[r], "C") = -30

\* something has been published, and every replica has merged the bytes every
\* other replica published last
EveryPublicationMerged ==
    /\ \E s \in Replicas : published[s] # NoBytes
    /\ \A r \in Replicas : \A s \in Replicas \ {r} :
           published[s] # NoBytes => s \in got[r]

AllLedgersIdentical ==
    \A r, s \in Replicas :
        /\ ledger[r] = ledger[s]
        /\ to_ledger(doc[r]) = to_ledger(doc[s])

\* C7: convergence of three replicas: whatever the interleaving of local
\* mutations, publishes and inbound merges, once every replica has merged
\* every other replica's published bytes, all replicas' ledgers and the
\* projections of their documents have identical accounts, transactions and balances.
C7_Convergence == EveryPublicationMerged => AllLedgersIdentical

\* Convergence where the code has it: when the replicas loaded one ancestor
\* document, or when every replica has published (so that every ROOT.ledger
\* object is known everywhere), the ledgers are identical, though not
\* necessarily complete.
ConvergenceWithKnownRoots ==
    (EveryPublicationMerged /\ (shared \/ \A r \in Replicas : published[r] # NoBytes))
        => AllLedgersIdentical

\* C8: no duplicate transactions: the ledger to_ledger reads from any
\* replica's document holds each transaction id at most once.
C8_NoDuplicateTransactions ==
    \A r \in Replicas : NoDuplicateIds(to_ledger(doc[r]).ledger.transactions)

C10_MergeIdempotent ==
    \A r \in Replicas :
        /\ to_ledger(merge(doc[r], doc[r])) = to_ledger(doc[r])
        /\ \A s \in Replicas \ {r} :
               published[s] # NoBytes =>
                   LET once == merge(doc[r], from_bytes(published[s]))
                   IN  to_ledger(merge(once, from_bytes(published[s]))) = to_ledger(once)

\* replica 2 has merged the bytes replica 1 published with T1 in them, its
\* ledger is the projection of that merge, and the same bytes are still there
\* to be delivered again
C10_Witness ==
    /\ 1 \in got[2]
    /\ ledger[2] = to_ledger(doc[2]).ledger
    /\ "T1" \in TxIds(to_ledger(from_bytes(published[1])).ledger.transactions)
    /\ "T1" \in TxIds(ledger[2].transactions)
    /\ recorded[2]

\* the documents replica r can meet: the other replica's document, what the
\* other replica published, and the foreign peer's documents
DocsFor(r) ==
    {doc[s] : s \in Pair \ {r}} \cup
    {from_bytes(published[s]) : s \in {x \in Pair \ {r} : published[x] # NoBytes}} \cup
    ForeignDocs

TxIdsOf(d) == TxIds(to_ledger(d).ledger.transactions)

\* C11: merge commutativity: for every pair of documents, those built from
\* disjoint transaction sets included, merging d2 into d1 and merging d1 into
\* d2 give documents whose projected ledgers have identical balances.
C11_MergeCommutative ==
    \A r \in Pair : \A d2 \in DocsFor(r) :
        to_ledger(merge(doc[r], d2)).ledger.balances =
            to_ledger(merge(d2, doc[r])).ledger.balances

\* replicas 1 and 2, from one ancestor, hold documents with the disjoint
\* transaction sets {T1} and {T2}, and the merge has balances neither has
C11_Witness ==
    /\ shared
    /\ TxIdsOf(doc[1]) = {"T1"}
    /\ TxIdsOf(doc[2]) = {"T2"}
    /\ LET b == to_ledger(merge(doc[1], doc[2])).ledger.balances
       IN  /\ b # to_ledger(doc[1]).ledger.balances
           /\ b # to_ledger(doc[2]).ledger.balances

\* C13: no recorded transaction is ever lost: a transaction id that is in a
\* replica's ledger is in that replica's ledger after every further step
\* (local mutation with its re-projection, or inbound merge with its projection).
C13_NoTransactionLost ==
    [][\A r \in Replicas :
           TxIds(ledger[r].transactions) \subseteq TxIds(ledger'[r].transactions)]_vars

\* C20: idempotence of projection: on any replica's document, a second
\* update_from_ledger with the same ledger, right after the first and with no
\* merge in between, gives a document whose to_ledger result is the one after
\* the first call: the lists and the map are cleared and rebuilt, not added to.
C20_ProjectionIdempotent ==
    \A r \in Replicas :
        LET once == update_from_ledger(doc[r], r, ledger[r])
            twice == update_from_ledger(once, r, ledger[r])
        IN  /\ to_ledger(twice) = to_ledger(once)
            /\ to_ledger(once).ledger.transactions = ledger[r].transactions

\* replica 2 holds a ledger with an account and the transactions T1 and T2,
\* and a document that has merged replica 1's operations and been projected
\* into twice by replica 2
C20_Witness ==
    /\ nProj[2] = 2
    /\ "A" \in DOMAIN ledger[2].accounts
    /\ TxIds(ledger[2].transactions) = {"T1", "T2"}
    /\ published[2] = to_bytes(doc[2])
    /\ to_ledger(doc[2]).ledger = ledger[2]

\* C14: decode failure (S6): projecting an inbound document that holds an
\* account of unknown category fails with "unknown account type", and the
\* step that receives it leaves every replica's ledger exactly as it was.
C14_DecodeFailure ==
    [][\A F \in ForeignDocs :
           ReceiveForeign(ForeignLink, F) => (~to_ledger(F).ok /\ ledger' = ledger)]_vars

\* the replica holds a ledger with an account and a transaction, and its
\* document has merged a foreign document whose account list it now shows,
\* so that its projection fails
C14_Witness ==
    /\ "A" \in DOMAIN ledger[ForeignLink].accounts
    /\ ledger[ForeignLink].transactions # <<>>
    /\ ~to_ledger(doc[ForeignLink]).ok

----------------------------------------------------------------------------
(* Claims about the SyncableLedger and the projection bridge *)

\* C12: projection round trip: a ledger written into a new document with
\* update_from_ledger, with or without to_bytes / from_bytes in between, is
\* read back by to_ledger without error, with the same accounts, the same
\* transactions in the same order (hence the same multiset) and the same
\* balances map.
C12_RoundTrip ==
    back.read =>
        /\ back.ok
        /\ back.ledger.accounts = sl.accounts
        /\ back.ledger.transactions = sl.transactions
        /\ back.ledger.balances = sl.balances

\* a ledger with two accounts, a transaction and a negative balance has been
\* projected, saved, loaded and read back
C12_Witness ==
    /\ back.read
    /\ stage = "loaded"
    /\ DOMAIN sl.accounts = {"A", "B"}
    /\ sl.transactions = <<TxOf(1)>>
    /\ sl.balances["B"] = -50

\* C18: balance cache of SyncableLedger: after any sequence of add_account
\* and record_transaction calls from new(), every balance (0 when absent) is
\* the sum of the posting amounts for its account over the transactions
\* list, the list holds the recorded transactions in call order, and
\* add_account leaves every balance that was there as it was.
C18_SyncBalanceCache ==
    /\ \A a \in SyncAccountIds : BalanceOf(sl, a) = PostedIn(sl.transactions, a)
    /\ sl.transactions = slLog
    /\ slLast.op = "add_account" =>
           \A id \in DOMAIN slLast.pre.balances : sl.balances[id] = slLast.pre.balances[id]

\* account A, with balance 50 after T1, has been added again
C18_Witness ==
    /\ slLast.op = "add_account"
    /\ slLast.id = "A"
    /\ "A" \in DOMAIN slLast.pre.accounts
    /\ slLast.pre.balances["A"] = 50
    /\ slLog = <<TxOf(1)>>
    /\ sl.balances["A"] = 50

====
